---- MODULE Spec2Model ----
(***************************************************************************)
(* Corintick: timeseries segments (pandas DataFrames) stored as             *)
(* size-bounded chunks (BSON documents) in a MongoDB collection.           *)
(*                                                                         *)
(* src/corintick/serialization.py : make_bson_docs, _make_bson_doc,         *)
(*                                  build_dataframe, _build_dataframe      *)
(* src/corintick/corintick.py     : Corintick.write, read, _query,          *)
(*                                  _validate_dates, _make_indexes         *)
(*                                                                         *)
(* Sizes are scaled: one unit of MAX_BSON_SIZE stands for 1 MiB and one    *)
(* model row for a block of rows, so that a segment of a few rows exceeds  *)
(* the split budget.  All size arithmetic is the code's, on integers.      *)
(***************************************************************************)
EXTENDS Integers, Sequences, FiniteSets, TLC

VARIABLES
    store,      \* the collection: the set of chunk documents inserted so far
    op,         \* outcome of the last completed read/write call
    writers,    \* concurrent write calls in flight: position and locals
    input,      \* argument of the pure function under check
    output      \* its result

vars == <<store, op, writers, input, output>>

-----------------------------------------------------------------------------
(* Bounds and program constants                                            *)

\* serialization.py:19  MAX_BSON_SIZE = 2 ** 24, here in MiB
MAX_BSON_SIZE == 16
\* bytes pandas' memory_usage() counts per row for the index and for each
\* column (int64, float64, datetime64[ns] and object pointers are 8 bytes)
ItemSize == 8
\* corintick.py:43  self.max_docs = 20, scaled
DefaultMaxDocs == 2
\* CPython's recursion limit (1000 frames), scaled
RecursionLimit == 3
MaxRows == 3
MaxTime == 2
MaxStored == 2
MaxChunks == 2
MaxOffset == 2

\* max_docs=None
None == -1

Min(S) == CHOOSE x \in S : \A y \in S : x <= y
Max(S) == CHOOSE x \in S : \A y \in S : x >= y

-----------------------------------------------------------------------------
(* Python values, column names, DataFrames                                 *)

\* a Python object held in a cell: its type and its printed text
FloatVal(r) == [py |-> "float", repr |-> r]
StrVal(s) == [py |-> "str", repr |-> s]
NoneVal == [py |-> "NoneType", repr |-> "None"]
NaN == [py |-> "float", repr |-> "nan"]

\* str(x)
PyStr(v) == [py |-> "str", repr |-> v.repr]

\* a column label: a str or an int, with the characters of its text
StrName(chars) == [py |-> "str", chars |-> chars]
IntName(chars) == [py |-> "int", chars |-> chars]

\* serialization.py:100  lambda x: re.sub('\.', '', str(x))
RenameColumn(x) ==
    [py |-> "str", chars |-> SelectSeq(x.chars, LAMBDA c : c # ".")]

InSeq(seq, x) == \E i \in DOMAIN seq : seq[i] = x
IndexOf(seq, x) ==
    CHOOSE i \in DOMAIN seq : seq[i] = x /\ \A j \in 1..(i - 1) : seq[j] # x
HasDuplicates(seq) == \E i, j \in DOMAIN seq : i < j /\ seq[i] = seq[j]

\* DataFrame.memory_usage().sum(): index plus every column, ItemSize a row
MemoryUsage(df) == Len(df.rows) * ItemSize * (1 + Len(df.columns))

\* DataFrame.sort_index(ascending=True): rows ordered by timestamp; rows
\* with equal timestamps keep their relative order
SortIndex(rows) ==
    LET n == Len(rows)
        rank(i) == Cardinality({j \in 1..n : rows[j].t < rows[i].t})
                   + Cardinality({j \in 1..i : rows[j].t = rows[i].t})
    IN [p \in 1..n |-> rows[CHOOSE i \in 1..n : rank(i) = p]]

\* np.array_split(rows, k): the first n % k sections hold n \div k + 1 rows,
\* the others n \div k; sections are <<lo, hi>> positions, empty when hi < lo
ArraySplit(n, k) ==
    LET q == n \div k
        r == n % k
        lo(i) == IF i <= r THEN (i - 1) * (q + 1) + 1
                 ELSE r * (q + 1) + (i - 1 - r) * q + 1
        len(i) == IF i <= r THEN q + 1 ELSE q
    IN [i \in 1..k |-> <<lo(i), lo(i) + len(i) - 1>>]

SubFrame(df, sect) == [df EXCEPT !.rows = SubSeq(df.rows, sect[1], sect[2])]

-----------------------------------------------------------------------------
(* serialization.py: the column codec and the chunk encoder                *)

\* _serialize_array (lines 32-38): object arrays are stringified and packed
\* as msgpack byte strings, other dtypes are saved element for element
serialize_array(values, dtype) ==
    IF dtype = "object"
    THEN [i \in DOMAIN values |-> [py |-> "bytes", repr |-> PyStr(values[i]).repr]]
    ELSE values

\* mutant of deserialize_array: the msgpack byte strings are not decoded
deserialize_array_raw(column) == column.blob

\* _deserialize_array (lines 50-54): msgpack byte strings are decoded to str
deserialize_array(column) ==
    IF column.dtype = "object"
    THEN [i \in DOMAIN column.blob |-> [py |-> "str", repr |-> column.blob[i].repr]]
    ELSE column.blob

\* _make_bson_column (lines 65-69); size is len(blob), the length lz4 gives
\* (the sha1 digest is stored and never read: left out)
make_bson_column(values, dtype, size) ==
    [blob |-> serialize_array(values, dtype), dtype |-> dtype, size |-> size]

\* mutant of Oversize: the size is held against the hard ceiling itself
Oversize_ceiling(binary_size) == binary_size > MAX_BSON_SIZE

\* line 110: binary_size > 0.95 * MAX_BSON_SIZE
Oversize(binary_size) == 100 * binary_size > 95 * MAX_BSON_SIZE

NoDoc == [uid |-> "", start |-> 0, end |-> 0]

\* datetime.timedelta(hours=h), normalised: 0 <= seconds < 86400 and the
\* sign is carried by days
Timedelta(h) == [days |-> (h * 3600) \div 86400, seconds |-> (h * 3600) % 86400]

\* lines 91-97: None for a naive index, else tzinfo._offset.seconds / 3600
\* (whole hours here, so the quotient is exact)
UtcOffset(tz) ==
    IF tz = <<>> THEN <<>> ELSE <<Timedelta(tz[1]).seconds \div 3600>>

\* _make_bson_doc (lines 85-125) on sub-frame df, whose arrays each compress
\* to blobsize bytes.  exc is the exception raised, "none" when doc returns.
make_bson_doc(uid, df, blobsize) ==
    LET mem_usage == MemoryUsage(df)
        rows == SortIndex(df.rows)
        names == [j \in DOMAIN df.columns |-> RenameColumn(df.columns[j])]
        index == make_bson_column([i \in DOMAIN rows |-> rows[i].t],
                                  "datetime64[ns]", blobsize)
        columns == [j \in DOMAIN names |->
                      [name |-> names[j],
                       col |-> make_bson_column(
                                  [i \in DOMAIN rows |-> rows[i].cells[j]],
                                  df.dtypes[j], blobsize)]]
        nrows == Len(rows)
        binary_size == Len(names) * blobsize + index.size
        raised(e) == [exc |-> e, doc |-> NoDoc,
                      binary_size |-> binary_size, mem_usage |-> mem_usage]
    IN  IF ~df.datetimeindex THEN raised("ValueError")
        ELSE IF HasDuplicates(names) THEN raised("AttributeError")
        ELSE IF Oversize(binary_size) THEN raised("InvalidBSON")
        ELSE IF nrows = 0 THEN raised("IndexError")
        ELSE [exc |-> "none",
              doc |-> [uid |-> uid,
                       start |-> rows[1].t,
                       end |-> rows[nrows].t,
                       metadata |-> [nrows |-> nrows, binary_size |-> binary_size,
                                     utc_offset |-> UtcOffset(df.tz)],
                       index |-> index,
                       columns |-> columns],
              binary_size |-> binary_size, mem_usage |-> mem_usage]

\* len(blob) of the arrays of section sect: lz4 is the compressor's output
\* length per section of the frame; an empty array compresses to its header
BlobSize(lz4, sect) == IF sect[2] < sect[1] THEN 1 ELSE lz4[sect]

\* mutant of NewMaxSize: the budget is taken from the ceiling itself
NewMaxSize_ceiling(binary_size, mem_usage) ==
    IF mem_usage = 0 THEN 0
    ELSE (MAX_BSON_SIZE * mem_usage) \div binary_size

\* line 154: np.floor(0.95 * MAX_BSON_SIZE / e.args[1]), e.args[1] being
\* binary_size / mem_usage (inf for an empty frame)
NewMaxSize(binary_size, mem_usage) ==
    IF mem_usage = 0 THEN 0
    ELSE (95 * MAX_BSON_SIZE * mem_usage) \div (100 * binary_size)

\* line 155: assert new_max_size > MAX_BSON_SIZE * 0.8
BudgetAccepted(new_max_size) == 10 * new_max_size > 8 * MAX_BSON_SIZE

\* split_dataframes (lines 143-146): split_num = ceil(mem_usage / size) and
\* the sections of np.array_split, which raises ValueError for 0 sections
split_dataframes(df, size) ==
    LET mem_usage == MemoryUsage(df)
        split_num == (mem_usage + size - 1) \div size
    IN [split_num |-> split_num,
        sects |-> IF split_num = 0 THEN <<>> ELSE ArraySplit(Len(df.rows), split_num)]

\* make_bson_docs (lines 143-158); depth counts the recursive calls and
\* budgets lists the max_size of this call and of the calls it made
RECURSIVE make_bson_docs(_, _, _, _, _)
make_bson_docs(uid, df, max_size, lz4, depth) ==
    LET failed(e) == [exc |-> e, docs |-> <<>>, max_size |-> max_size,
                      depth |-> depth, budgets |-> <<max_size>>]
        split_num == split_dataframes(df, max_size).split_num
    IN  IF depth > RecursionLimit THEN failed("RecursionError")
        ELSE IF split_num = 0 THEN failed("ValueError")
        ELSE
        LET sects == split_dataframes(df, max_size).sects
            res == [i \in 1..split_num |->
                      make_bson_doc(uid, SubFrame(df, sects[i]), BlobSize(lz4, sects[i]))]
            bad == {i \in 1..split_num : res[i].exc # "none"}
        IN  IF bad = {}
            THEN [exc |-> "none", docs |-> [i \in 1..split_num |-> res[i].doc],
                  max_size |-> max_size, depth |-> depth, budgets |-> <<max_size>>]
            ELSE
            LET e == res[Min(bad)]
                new_max_size == NewMaxSize(e.binary_size, e.mem_usage)
            IN  IF e.exc # "InvalidBSON" THEN failed(e.exc)
                ELSE IF ~BudgetAccepted(new_max_size) THEN failed("AssertionError")
                ELSE [make_bson_docs(uid, df, new_max_size, lz4, depth + 1)
                         EXCEPT !.budgets = <<max_size>> \o @]

-----------------------------------------------------------------------------
(* serialization.py: the chunk decoder and merger                          *)

\* line 167: if doc['metadata']['utc_offset'] -- None and 0.0 are false
Truthy(utc_offset) == utc_offset # <<>> /\ utc_offset[1] # 0

\* Index.tz_localize(offset): the naive value t read as wall time at the
\* offset; the result holds the instant in UTC
TzLocalize(t, offset) == t - offset

\* _build_dataframe (lines 166-173); tz is the decoded index's tzinfo and t
\* its instants in UTC
build_dataframe_doc(doc) ==
    LET index == deserialize_array(doc.index)
        utc_offset == doc.metadata.utc_offset
        columns == [j \in DOMAIN doc.columns |-> deserialize_array(doc.columns[j].col)]
    IN [columns |-> [j \in DOMAIN doc.columns |-> doc.columns[j].name],
        tz |-> IF Truthy(utc_offset) THEN utc_offset ELSE <<>>,
        rows |-> [i \in DOMAIN index |->
                    [t |-> IF Truthy(utc_offset)
                           THEN TzLocalize(index[i], utc_offset[1]) + utc_offset[1]
                           ELSE index[i],
                     cells |-> [j \in DOMAIN columns |-> columns[j][i]]]]]

InsertAt(seq, p, x) == SubSeq(seq, 1, p - 1) \o <<x>> \o SubSeq(seq, p, Len(seq))

\* lines 187-193: place each new column of cols; final.ok = FALSE once
\* final.index(next_item) has raised ValueError
RECURSIVE place_new_cols(_, _, _)
place_new_cols(final, cols, new_cols) ==
    IF ~final.ok \/ new_cols = <<>> THEN final
    ELSE
    LET c == Head(new_cols)
        i == IndexOf(cols, c)
        placed ==
            IF i + 1 > Len(cols)
            THEN [ok |-> TRUE, cols |-> Append(final.cols, c)]
            ELSE IF InSeq(final.cols, cols[i + 1])
            THEN [ok |-> TRUE,
                  cols |-> InsertAt(final.cols, IndexOf(final.cols, cols[i + 1]), c)]
            ELSE [ok |-> FALSE, cols |-> final.cols]
    IN place_new_cols(placed, cols, Tail(new_cols))

\* lines 182-186: the loop over col_list[1:]
RECURSIVE merge_col_lists(_, _)
merge_col_lists(final, col_lists) ==
    IF ~final.ok \/ col_lists = <<>> THEN final
    ELSE
    LET cols == Head(col_lists)
        new_cols == SelectSeq(cols, LAMBDA c : ~InSeq(final.cols, c))
    IN merge_col_lists(place_new_cols(final, cols, new_cols), Tail(col_lists))

\* fix_column_ordering (lines 179-194), col_list non-empty
fix_column_ordering(col_list) ==
    merge_col_lists([ok |-> TRUE, cols |-> Head(col_list)], Tail(col_list))

RECURSIVE ConcatRows(_)
ConcatRows(dfs) ==
    IF dfs = <<>> THEN <<>> ELSE Head(dfs).rows \o ConcatRows(Tail(dfs))

\* pd.concat(dfs).reindex(columns=cols): every row laid out on cols, NaN
\* where the row's frame has no such column
Reindex(df, cols) ==
    [i \in DOMAIN df.rows |->
        [t |-> df.rows[i].t,
         cells |-> [j \in DOMAIN cols |->
                      IF InSeq(df.columns, cols[j])
                      THEN df.rows[i].cells[IndexOf(df.columns, cols[j])]
                      ELSE NaN]]]

\* build_dataframe (lines 196-200); pd.concat of no frames raises ValueError,
\* as does fix_column_ordering when final.index fails.  The chunks decoded
\* together record one offset, which the concatenated index keeps
build_dataframe(docs) ==
    IF docs = <<>>
    THEN [exc |-> "ValueError", tz |-> <<>>, columns |-> <<>>, rows |-> <<>>]
    ELSE
    LET dfs == [k \in DOMAIN docs |-> build_dataframe_doc(docs[k])]
        cols == fix_column_ordering([k \in DOMAIN dfs |-> dfs[k].columns])
    IN  IF ~cols.ok
        THEN [exc |-> "ValueError", tz |-> <<>>, columns |-> <<>>, rows |-> <<>>]
        ELSE [exc |-> "none",
              tz |-> dfs[1].tz,
              columns |-> cols.cols,
              rows |-> SortIndex(ConcatRows(
                          [k \in DOMAIN dfs |->
                              [rows |-> Reindex(dfs[k], cols.cols)]]))]

-----------------------------------------------------------------------------
(* corintick.py: the collection, write and read                            *)

\* mutant of DatesDisjoint: ranges that share an endpoint pass
DatesDisjoint_strict(start, end, d) == end <= d.start \/ start >= d.end

\* line 197: the ranges do not meet
DatesDisjoint(start, end, d) == end < d.start \/ start > d.end

\* _validate_dates (lines 188-203) against collection col
validate_dates(uid, df, col) ==
    LET docs == {d \in col : d.uid = uid}
        rows == SortIndex(df.rows)
    IN  IF ~df.datetimeindex THEN "ValueError: DataFrame index is not DatetimeIndex"
        ELSE IF rows = <<>> THEN "IndexError"
        ELSE IF \E d \in docs : ~DatesDisjoint(rows[1].t, rows[Len(rows)].t, d)
        THEN "ValueError: Invalid dates"
        ELSE "none"

\* _make_indexes (line 176): ix1 is unique on (uid, start, end)
DuplicateKey(col, doc) ==
    \E d \in col : d.uid = doc.uid /\ d.start = doc.start /\ d.end = doc.end

\* Collection.insert_many(docs), ordered: documents are inserted one by one
\* and the first duplicate key stops the batch with BulkWriteError
RECURSIVE insert_many(_, _)
insert_many(col, docs) ==
    IF docs = <<>> THEN [col |-> col, exc |-> "none"]
    ELSE IF DuplicateKey(col, Head(docs)) THEN [col |-> col, exc |-> "BulkWriteError"]
    ELSE insert_many(col \cup {Head(docs)}, Tail(docs))

\* make_bson_docs' default max_size (line 128)
DefaultMaxSize == MAX_BSON_SIZE * 4

\* mutant of Write: the chunks are inserted before the dates are validated
Write_insert_first(uid, df, lz4) ==
    LET v == validate_dates(uid, df, store)
        enc == make_bson_docs(uid, df, DefaultMaxSize, lz4, 0)
        ins == insert_many(store, enc.docs)
        exc == IF v # "none" THEN v ELSE IF enc.exc # "none" THEN enc.exc ELSE ins.exc
        encoded == IF v = "none" /\ enc.exc = "none" THEN Len(enc.docs) ELSE 0
    IN  /\ store' = ins.col
        /\ op' = [kind |-> "write", uid |-> uid,
                  datetimeindex |-> df.datetimeindex,
                  times |-> {df.rows[i].t : i \in DOMAIN df.rows},
                  exc |-> exc, encoded |-> encoded, chunks |-> Len(enc.docs)]
        /\ UNCHANGED <<writers, input, output>>

\* Corintick.write (lines 114-117); chunks is the number of chunks the frame
\* encodes to, encoded the number handed to insert_many
Write(uid, df, lz4) ==
    LET v == validate_dates(uid, df, store)
        enc == make_bson_docs(uid, df, DefaultMaxSize, lz4, 0)
        ins == insert_many(store, enc.docs)
        exc == IF v # "none" THEN v ELSE IF enc.exc # "none" THEN enc.exc ELSE ins.exc
        encoded == IF v = "none" /\ enc.exc = "none" THEN Len(enc.docs) ELSE 0
    IN  /\ store' = IF encoded > 0 THEN ins.col ELSE store
        /\ op' = [kind |-> "write", uid |-> uid,
                  datetimeindex |-> df.datetimeindex,
                  times |-> {df.rows[i].t : i \in DOMAIN df.rows},
                  exc |-> exc, encoded |-> encoded, chunks |-> Len(enc.docs)]
        /\ UNCHANGED <<writers, input, output>>

\* mutant of Query: the third disjunct (chunk holds the query end) is lost
Query_two(d, uid, start, end) ==
    /\ d.uid = uid
    /\ \/ d.start <= start /\ d.end >= start
       \/ d.start >= start /\ d.end <= end

\* _query (lines 153-156): the filter handed to find()
Query(d, uid, start, end) ==
    /\ d.uid = uid
    /\ \/ d.start <= start /\ d.end >= start
       \/ d.start >= start /\ d.end <= end
       \/ d.start <= end /\ d.end >= end

\* find(query).limit(max_docs): the matching documents in the order the
\* server yields them (no sort is asked for), cut at the limit; limit(0)
\* is no limit
Cursors(matched, limit) ==
    LET n == IF limit = 0 \/ limit > Cardinality(matched)
             THEN Cardinality(matched) ELSE limit
    IN {c \in [1..n -> matched] : \A i, j \in 1..n : i # j => c[i] # c[j]}

\* line 84: if max_docs and ndocs >= max_docs
WarnsTruncated(max_docs, ndocs) ==
    max_docs # None /\ max_docs # 0 /\ ndocs >= max_docs

\* df.loc[start:end] (line 98) on the sorted index
LocSlice(rows, start, end) ==
    SelectSeq(rows, LAMBDA r : start <= r.t /\ r.t <= end)

\* Corintick.read (lines 72-98), columns=None
Read(uid, start, end, max_docs) ==
    LET limit == IF max_docs = None THEN DefaultMaxDocs ELSE max_docs
        matched == {d \in store : Query(d, uid, start, end)}
    IN  /\ \E cursor \in Cursors(matched, limit) :
            LET ndocs == Len(cursor)
                df == build_dataframe(cursor)
                call == [kind |-> "read", uid |-> uid, start |-> start,
                         end |-> end, max_docs |-> max_docs, ndocs |-> ndocs]
            IN  op' = IF ndocs = 0
                      THEN call @@ [exc |-> "none", returned |-> "None",
                                    warnings |-> {"No documents retrieved!"},
                                    columns |-> <<>>, rows |-> <<>>]
                      ELSE IF df.exc # "none"
                      THEN call @@ [exc |-> df.exc, returned |-> "",
                                    warnings |-> {},
                                    columns |-> <<>>, rows |-> <<>>]
                      ELSE call @@ [exc |-> "none", returned |-> "DataFrame",
                                    warnings |-> IF WarnsTruncated(max_docs, ndocs)
                                                 THEN {"Only ndocs docs retrieved"}
                                                 ELSE {},
                                    columns |-> df.columns,
                                    rows |-> LocSlice(df.rows, start, end)]
        /\ UNCHANGED <<store, writers, input, output>>

-----------------------------------------------------------------------------
(* Inputs                                                                  *)

Uids == {"X", "Y"}
Times == 1..MaxTime

ColA == StrName(<<"a">>)
ColB == StrName(<<"b">>)
ColC == StrName(<<"c">>)
ColD == StrName(<<"d">>)

\* index values of a frame of up to MaxRows rows, in any order
TimeSeqs == UNION {[1..n -> Times] : n \in 0..MaxRows}

\* a float64 frame on columns cols whose cells are a function of the
\* timestamp; tz is the index's tzinfo: <<>> when naive, <<h>> for a fixed
\* offset of h hours.  Timestamps count hours and are the instants in UTC
\* (DatetimeIndex.values)
CellReprs == <<"0.5", "1.5", "2.5">>
FloatFrame(cols, ts) ==
    [datetimeindex |-> TRUE,
     tz |-> <<>>,
     columns |-> cols,
     dtypes |-> [j \in DOMAIN cols |-> "float64"],
     rows |-> [i \in DOMAIN ts |->
                 [t |-> ts[i],
                  cells |-> [j \in DOMAIN cols |->
                               FloatVal(CellReprs[((ts[i] + j) % 3) + 1])]]]]

\* frames written to the collection: one or two columns, so that chunks of
\* one uid may differ in their columns; and a frame with a RangeIndex
StoreColumns == {<<ColA>>, <<ColB, ColC>>}
StoreFrames ==
    {FloatFrame(cols, ts) : cols \in StoreColumns, ts \in TimeSeqs}
    \cup {[FloatFrame(<<ColA>>, <<1, 2>>) EXCEPT !.datetimeindex = FALSE]}

\* sections np.array_split can cut a frame of up to MaxRows rows into
Sections == {s \in (1..MaxRows) \X (1..MaxRows) : s[1] <= s[2]}

\* compressors: every array shrinks to one unit; nothing shrinks below
\* the ceiling
Compressible == [s \in Sections |-> 1]
Incompressible == [s \in Sections |-> MAX_BSON_SIZE]

MaxDocsArgs == {None} \cup (0..DefaultMaxDocs)

\* bounds of a read window; the defaults MIN_TIME and MAX_TIME lie outside
\* every stored range
QueryTimes == 0..(MaxTime + 1)

NoOp == [kind |-> "none"]

\* the calls made: uid "X" is written every frame; and two frames that do
\* not compress; uid "Y" is a second series holding one chunk
WriteArgs ==
    ({"X"} \X StoreFrames \X {Compressible})
    \cup ({"X"} \X {FloatFrame(<<ColA>>, <<1>>), FloatFrame(<<ColB, ColC>>, <<1, 2, 3>>)}
                \X {Incompressible})
    \cup ({"Y"} \X {FloatFrame(<<ColA>>, <<1, MaxTime>>)} \X {Compressible})

\* the collection is bounded to MaxStored documents
WriteCall ==
    /\ op = NoOp
    /\ \E a \in WriteArgs : Write(a[1], a[2], a[3])
    /\ Cardinality(store') <= MaxStored

ReadCall ==
    /\ op = NoOp
    /\ \E uid \in Uids, start \in QueryTimes, end \in QueryTimes,
          max_docs \in MaxDocsArgs :
          start <= end /\ Read(uid, start, end, max_docs)

\* the caller takes the outcome of the call
Return ==
    /\ op # NoOp
    /\ op' = NoOp
    /\ UNCHANGED <<store, writers, input, output>>

Init ==
    /\ store = {}
    /\ op = NoOp
    /\ writers = <<>>
    /\ input = <<>>
    /\ output = <<>>

Next == WriteCall \/ ReadCall \/ Return

Spec == Init /\ [][Next]_vars

-----------------------------------------------------------------------------
(* Claims on the collection, under Spec                                    *)

Overlap(d1, d2) == ~(d1.end < d2.start \/ d2.end < d1.start)

\* C1: after any sequence of writes executed one after another, the
\* [start, end] intervals of the chunks stored for one uid are pairwise
\* disjoint, whatever the row order, the repeated timestamps and the
\* splitting of the segments written.
C1_StoredIntervalsDisjoint ==
    \A d1, d2 \in store : d1 # d2 /\ d1.uid = d2.uid => ~Overlap(d1, d2)

RangeOf(times) == [start |-> Min(times), end |-> Max(times)]

\* C2: _validate_dates, given a segment with a timestamp index and at least
\* one row, raises the conflict error if and only if the segment's range
\* [min timestamp, max timestamp] meets the inclusive [start, end] of a chunk
\* stored for the same uid; chunks of other uids never count, touching
\* endpoints do.
C2_ConflictIffIntersects ==
    [][ (op'.kind = "write" /\ op.kind = "none"
         /\ op'.datetimeindex /\ op'.times # {})
        => LET new == RangeOf(op'.times)
           IN (op'.exc = "ValueError: Invalid dates")
              <=> \E d \in store : /\ d.uid = op'.uid
                                   /\ new.start <= d.end
                                   /\ new.end >= d.start ]_vars

\* C2 witness: a write was refused whose range only touches a stored chunk
\* of its uid (new.start = other.end), with a chunk of another uid stored too
C2_Witness ==
    /\ op.kind = "write"
    /\ op.exc = "ValueError: Invalid dates"
    /\ \E d \in store : /\ d.uid = op.uid
                         /\ RangeOf(op.times).start = d.end
                         /\ RangeOf(op.times).end > d.end
    /\ \A d \in store : d.uid = op.uid => RangeOf(op.times).start >= d.end
    /\ \E d \in store : d.uid # op.uid

Intersects(d, start, end) == d.start <= end /\ d.end >= start

\* C6: for every window start <= end and every stored chunk (start <= end),
\* the three-way disjunction of _query selects the chunk iff it has the
\* queried uid and its interval intersects the window; chunks [1,5] and
\* [10,15]: the window [3,12] selects both and [6,9] neither.  A read below
\* its limit gets exactly the intersecting chunks.
C6_QuerySelectsIntersecting ==
    /\ \A d \in store, uid \in Uids, start \in QueryTimes, end \in QueryTimes :
          (start <= end /\ d.start <= d.end)
          => (Query(d, uid, start, end) <=> (d.uid = uid /\ Intersects(d, start, end)))
    /\ LET c1 == [uid |-> "X", start |-> 1, end |-> 5]
           c2 == [uid |-> "X", start |-> 10, end |-> 15]
       IN /\ Query(c1, "X", 3, 12) /\ Query(c2, "X", 3, 12)
          /\ ~Query(c1, "X", 6, 9) /\ ~Query(c2, "X", 6, 9)
          /\ ~Query(c1, "Y", 3, 12)
    /\ (op.kind = "read" /\ op.max_docs = 0)
       => op.ndocs = Cardinality({d \in store : d.uid = op.uid
                                               /\ Intersects(d, op.start, op.end)})

\* C6 witness: a read without limit selected a chunk that only holds the
\* window's end, and left out a chunk of another uid that intersects the
\* window
C6_Witness ==
    /\ op.kind = "read" /\ op.max_docs = 0 /\ op.ndocs = 1 /\ op.start < op.end
    /\ \E d \in store : d.uid = op.uid /\ d.start > op.start
                        /\ d.start <= op.end /\ d.end > op.end
    /\ \E d \in store : d.uid # op.uid /\ Intersects(d, op.start, op.end)

\* the ceiling a read applies: max_docs when given, else self.max_docs
Ceiling(max_docs) == IF max_docs = None THEN DefaultMaxDocs ELSE max_docs

\* C9: a read that returns as many chunks as its effective ceiling (the
\* max_docs argument, or the instance default when none is given) signals
\* the "possibly truncated" warning.
C9_CeilingReachedWarns ==
    (op.kind = "read" /\ op.returned = "DataFrame"
     /\ op.ndocs = Ceiling(op.max_docs))
    => op.warnings # {}

\* the rows stored for op.uid inside the window, laid out on columns cols
StoredCell(d, i, name) ==
    LET names == [j \in DOMAIN d.columns |-> d.columns[j].name]
    IN IF InSeq(names, name)
       THEN d.columns[IndexOf(names, name)].col.blob[i]
       ELSE NaN
StoredRow(d, i, cols) ==
    [t |-> d.index.blob[i],
     cells |-> [j \in DOMAIN cols |-> StoredCell(d, i, cols[j])]]
StoredInWindow(uid, start, end) ==
    {di \in {d \in store : d.uid = uid} \X (1..MaxRows) :
        /\ di[2] <= di[1].metadata.nrows
        /\ start <= di[1].index.blob[di[2]]
        /\ di[1].index.blob[di[2]] <= end}

Ascending(rows) == \A i, j \in DOMAIN rows : i < j => rows[i].t <= rows[j].t

\* C10: read(uid, start, end) with start <= end, a stored chunk of the uid
\* intersecting the window and the ceiling not reached returns exactly the
\* rows stored for the uid with start <= t <= end, in ascending order.
C10_ReadReturnsWindow ==
    (/\ op.kind = "read" /\ op.start <= op.end
     /\ \E d \in store : d.uid = op.uid /\ Intersects(d, op.start, op.end)
     /\ (op.max_docs = 0 \/ op.ndocs < Ceiling(op.max_docs)))
    => /\ op.exc = "none" /\ op.returned = "DataFrame"
       /\ Ascending(op.rows)
       /\ LET want == StoredInWindow(op.uid, op.start, op.end)
          IN /\ Len(op.rows) = Cardinality(want)
             /\ \A di \in want :
                   LET r == StoredRow(di[1], di[2], op.columns)
                   IN Cardinality({k \in DOMAIN op.rows : op.rows[k] = r})
                      = Cardinality({x \in want :
                                       StoredRow(x[1], x[2], op.columns) = r})
             /\ \A di \in want : \A j \in DOMAIN di[1].columns :
                   InSeq(op.columns, di[1].columns[j].name)

\* C10, apart from the reads that build_dataframe aborts
C10_UnlessMergeFails ==
    (op.kind = "read" /\ op.exc = "ValueError") \/ C10_ReadReturnsWindow

\* C11: a write rejected before insertion (a range conflict or a
\* non-timestamp index found by _validate_dates, or a failure of
\* make_bson_docs) leaves the stored chunks of every uid as they were, also
\* when the segment encodes to several chunks.
C11_RejectedWriteStoresNothing ==
    [][(op'.kind = "write" /\ op'.exc \notin {"none", "BulkWriteError"})
          => store' = store]_vars

\* C11 witness: a segment that encodes to two chunks was rejected for a
\* range conflict with a stored chunk
C11_Witness ==
    /\ op.kind = "write"
    /\ op.exc = "ValueError: Invalid dates"
    /\ op.chunks >= 2
    /\ store # {}

\* C17: after a write returns or raises, either every chunk encoded from the
\* segment is stored or none is.
C17_WriteAllOrNothing ==
    [][op'.kind = "write"
          => (store' = store \/ Cardinality(store' \ store) = op'.chunks)]_vars

-----------------------------------------------------------------------------
(* Concurrent writers: Corintick.write (lines 114-116) as its three calls, *)
(* each atomic at the server, interleaved between callers                  *)

Procs == {"w1", "w2"}

\* frames the concurrent callers write to uid "X": a single column, which
\* the default budget never splits
ConcFrames == {FloatFrame(<<ColA>>, ts) : ts \in TimeSeqs}

Idle == [pc |-> "idle"]

\* line 114: self._validate_dates(uid, df, collection)
ConcValidate(p) ==
    /\ writers[p].pc = "idle"
    /\ \E df \in ConcFrames :
          LET v == validate_dates("X", df, store)
          IN writers' = [writers EXCEPT ![p] =
                 [pc |-> IF v = "none" THEN "validated" ELSE "raised",
                  uid |-> "X", df |-> df, docs |-> <<>>, exc |-> v]]
    /\ UNCHANGED <<store, op, input, output>>

\* line 115: docs = serialization.make_bson_docs(uid, df, metadata)
ConcEncode(p) ==
    /\ writers[p].pc = "validated"
    /\ LET enc == make_bson_docs(writers[p].uid, writers[p].df,
                                 DefaultMaxSize, Compressible, 0)
       IN writers' = [writers EXCEPT ![p] =
              [@ EXCEPT !.pc = IF enc.exc = "none" THEN "encoded" ELSE "raised",
                        !.docs = enc.docs, !.exc = enc.exc]]
    /\ UNCHANGED <<store, op, input, output>>

\* line 116: insert_many(docs)
ConcInsert(p) ==
    /\ writers[p].pc = "encoded"
    /\ LET ins == insert_many(store, writers[p].docs)
       IN /\ store' = ins.col
          /\ writers' = [writers EXCEPT ![p] =
                 [@ EXCEPT !.pc = IF ins.exc = "none" THEN "returned" ELSE "raised",
                           !.exc = ins.exc]]
    /\ UNCHANGED <<op, input, output>>

InitConc ==
    /\ store = {}
    /\ op = NoOp
    /\ writers = [p \in Procs |-> Idle]
    /\ input = <<>>
    /\ output = <<>>

NextConc == \E p \in Procs : ConcValidate(p) \/ ConcEncode(p) \/ ConcInsert(p)

SpecConc == InitConc /\ [][NextConc]_vars

\* the time range of the frame writer p holds
WriterRange(p) ==
    LET rows == writers[p].df.rows
    IN RangeOf({rows[i].t : i \in DOMAIN rows})

\* C3: under every interleaving of concurrent writes to one uid, each doing
\* validate, encode and insert as separate steps, two writes with overlapping
\* time ranges are never both committed: the stored intervals of the uid are
\* pairwise non-overlapping in every reachable state.
C3_NoOverlappingWritesCommitted ==
    /\ \A p, q \in Procs :
          (p # q /\ writers[p].pc = "returned" /\ writers[q].pc = "returned")
          => (WriterRange(p).end < WriterRange(q).start
              \/ WriterRange(q).end < WriterRange(p).start)
    /\ \A d1, d2 \in store : (d1.uid = d2.uid /\ Overlap(d1, d2)) => d1 = d2

-----------------------------------------------------------------------------
(* The codec as a pure function: make_bson_docs, then build_dataframe      *)

\* a frame of any dtypes: float64 cells as in FloatFrame; object cells hold
\* the str "s" on odd timestamps and None on even ones
MixedFrame(cols, dtypes, ts) ==
    [datetimeindex |-> TRUE,
     tz |-> <<>>,
     columns |-> cols,
     dtypes |-> dtypes,
     rows |-> [i \in DOMAIN ts |->
                 [t |-> ts[i],
                  cells |-> [j \in DOMAIN cols |->
                               IF dtypes[j] = "object"
                               THEN IF ts[i] % 2 = 1 THEN StrVal("s") ELSE NoneVal
                               ELSE FloatVal(CellReprs[((ts[i] + j) % 3) + 1])]]]]

\* column layouts: labels with a dot, an int label, an object column, and
\* two labels that collide once the dot is removed
Layouts ==
    { [cols |-> <<ColA>>, dtypes |-> <<"float64">>],
      [cols |-> <<ColB, ColC>>, dtypes |-> <<"float64", "float64">>],
      [cols |-> <<StrName(<<"a", ".", "b">>), IntName(<<"0">>)>>,
       dtypes |-> <<"float64", "object">>],
      [cols |-> <<StrName(<<"s">>)>>, dtypes |-> <<"object">>],
      [cols |-> <<StrName(<<"a", "b">>), StrName(<<"a", ".", "b">>)>>,
       dtypes |-> <<"float64", "float64">>] }

CodecFrames == {MixedFrame(l.cols, l.dtypes, ts) : l \in Layouts, ts \in TimeSeqs}

\* compressed lengths: each row adds its own weight to the length of the
\* arrays of a section, so sections of one frame compress differently
BlobWeights == {1, 4, 10}
RECURSIVE SumWeights(_, _, _)
SumWeights(w, lo, hi) == IF hi < lo THEN 0 ELSE w[lo] + SumWeights(w, lo + 1, hi)
Compressors ==
    {[s \in Sections |-> SumWeights(w, s[1], s[2])] : w \in [1..MaxRows -> BlobWeights]}
Uniform == {[s \in Sections |-> b * (s[2] - s[1] + 1)] : b \in BlobWeights}

\* initial budgets: below one row, a few rows, the default
MaxSizes == {ItemSize, 3 * ItemSize, DefaultMaxSize}

\* frames whose index carries a fixed offset of up to MaxOffset hours, west
\* and east of UTC
Offsets == (0 - MaxOffset)..MaxOffset
TzFrames ==
    {[FloatFrame(<<ColA>>, ts) EXCEPT !.tz = <<h>>] : ts \in TimeSeqs, h \in Offsets}

CodecInputs ==
    [uid : {"X"}, df : CodecFrames, max_size : MaxSizes, lz4 : Uniform]
    \cup [uid : {"X"}, df : StoreFrames, max_size : MaxSizes, lz4 : Compressors]
    \cup [uid : {"X"}, df : TzFrames, max_size : MaxSizes, lz4 : Uniform]

Encode ==
    /\ output.stage = "input"
    /\ output' = [stage |-> "encoded",
                  enc |-> make_bson_docs(input.uid, input.df, input.max_size,
                                         input.lz4, 0)]
    /\ UNCHANGED <<store, op, writers, input>>

Decode ==
    /\ output.stage = "encoded"
    /\ output.enc.exc = "none"
    /\ output' = [output EXCEPT !.stage = "decoded"]
                 @@ [dec |-> build_dataframe(output.enc.docs)]
    /\ UNCHANGED <<store, op, writers, input>>

InitCodec ==
    /\ store = {}
    /\ op = NoOp
    /\ writers = <<>>
    /\ input \in CodecInputs
    /\ output = [stage |-> "input"]

NextCodec == Encode \/ Decode

SpecCodec == InitCodec /\ [][NextCodec]_vars

-----------------------------------------------------------------------------
(* Claims on the codec, under SpecCodec                                    *)

Count(seq, x) == Cardinality({i \in DOMAIN seq : seq[i] = x})
SameBag(s1, s2) ==
    /\ Len(s1) = Len(s2)
    /\ \A i \in DOMAIN s1 : Count(s1, s1[i]) = Count(s2, s1[i])
Range(seq) == {seq[i] : i \in DOMAIN seq}

\* C4 as stated: decoding what make_bson_docs returned gives S's row count,
\* S's set of column names, S's value in every cell, and S's rows sorted
\* ascending by timestamp.
C4_RoundTripExact ==
    output.stage = "decoded"
    => /\ output.dec.exc = "none"
       /\ Len(output.dec.rows) = Len(input.df.rows)
       /\ Range(output.dec.columns) = Range(input.df.columns)
       /\ Ascending(output.dec.rows)
       /\ SameBag(output.dec.rows, input.df.rows)

WithoutDots(label) ==
    [py |-> "str", chars |-> SelectSeq(label.chars, LAMBDA c : c # ".")]
AsStored(df) ==
    [i \in DOMAIN df.rows |->
        [t |-> df.rows[i].t,
         cells |-> [j \in DOMAIN df.columns |->
                      IF df.dtypes[j] = "object"
                      THEN [py |-> "str", repr |-> df.rows[i].cells[j].repr]
                      ELSE df.rows[i].cells[j]]]]

\* C4, amended: decoding what make_bson_docs returned gives S's row count;
\* S's column labels, in S's order, each as a str without its dots; S's
\* value in every cell of a non-object column and str() of S's value in
\* every cell of an object column; rows sorted ascending by timestamp.
C4_RoundTrip ==
    output.stage = "decoded"
    => /\ output.dec.exc = "none"
       /\ Len(output.dec.rows) = Len(input.df.rows)
       /\ output.dec.columns =
             [j \in DOMAIN input.df.columns |-> WithoutDots(input.df.columns[j])]
       /\ Ascending(output.dec.rows)
       /\ SameBag(output.dec.rows, AsStored(input.df))

\* C4 witness: an unsorted frame with a dotted label and a None cell was
\* split into two chunks and decoded
C4_Witness ==
    /\ output.stage = "decoded"
    /\ Len(output.enc.docs) >= 2
    /\ ~Ascending(input.df.rows)
    /\ \E j \in DOMAIN input.df.columns : InSeq(input.df.columns[j].chars, ".")
    /\ \E i \in DOMAIN input.df.rows :
          \E j \in DOMAIN input.df.columns : input.df.rows[i].cells[j] = NoneVal

RECURSIVE SumSizes(_)
SumSizes(columns) ==
    IF columns = <<>> THEN 0 ELSE Head(columns).col.size + SumSizes(Tail(columns))

\* C5: every chunk make_bson_docs returns has metadata.binary_size, the sum
\* of the compressed sizes of the index blob and of every column blob, at
\* most 0.95 * MAX_BSON_SIZE, whatever the segment, the initial max_size and
\* the compression observed.
C5_SizeBound ==
    (output.stage # "input" /\ output.enc.exc = "none")
    => \A k \in DOMAIN output.enc.docs :
          LET d == output.enc.docs[k]
          IN /\ d.metadata.binary_size = d.index.size + SumSizes(d.columns)
             /\ 100 * d.metadata.binary_size <= 95 * MAX_BSON_SIZE

\* C5 witness: a list of two chunks returned after an overflow and a re-split
C5_Witness ==
    /\ output.stage = "encoded"
    /\ output.enc.exc = "none"
    /\ output.enc.depth >= 1
    /\ Len(output.enc.docs) >= 2
    /\ output.enc.max_size < input.max_size

\* C12: every chunk _make_bson_doc builds from a segment whose index carries
\* a fixed offset of h hours, h of either sign, has metadata.utc_offset = h;
\* from a naive index it has utc_offset null.
C12_UtcOffsetSigned ==
    (output.stage # "input" /\ output.enc.exc = "none")
    => \A k \in DOMAIN output.enc.docs :
          output.enc.docs[k].metadata.utc_offset = input.df.tz

Instants(rows) == [i \in DOMAIN rows |-> rows[i].t]

\* C13: chunks that record an offset, 0 included, decode to an index aware
\* at that offset and denoting the encoded instants; chunks that record
\* null decode to a naive index; so an aware segment never comes back naive.
C13_RecordedOffsetLocalized ==
    (output.stage = "decoded" /\ output.dec.exc = "none")
    => LET recorded == output.enc.docs[1].metadata.utc_offset
       IN /\ recorded # <<>>
                => /\ output.dec.tz = recorded
                   /\ Instants(output.dec.rows) = Instants(SortIndex(input.df.rows))
          /\ recorded = <<>> => output.dec.tz = <<>>
          /\ input.df.tz # <<>> => output.dec.tz # <<>>

\* C13, apart from the chunks that record an offset of 0
C13_UnlessZero ==
    (output.stage = "decoded" /\ output.enc.docs[1].metadata.utc_offset = <<0>>)
    \/ C13_RecordedOffsetLocalized

\* C14: make_bson_docs ends every call by returning a chunk list or by
\* raising an error of its own, after a bounded number of re-splits: it never
\* recomputes a budget it has tried before, and the recursion is never cut
\* by the interpreter's stack.
C14_ResplitTerminates ==
    output.stage # "input"
    => /\ output.enc.exc # "RecursionError"
       /\ ~HasDuplicates(output.enc.budgets)

\* what cuts the recursion is always a budget that comes back
C14_OnlyCycles ==
    (output.stage # "input" /\ output.enc.exc = "RecursionError")
    => HasDuplicates(output.enc.budgets)

\* one pass over the sections of budget max_size: what _make_bson_doc gives
\* on each, and the sections on which it raises
SectionResults(uid, df, max_size, lz4) ==
    LET sp == split_dataframes(df, max_size)
        res == [i \in 1..sp.split_num |->
                  make_bson_doc(uid, SubFrame(df, sp.sects[i]), BlobSize(lz4, sp.sects[i]))]
    IN [split_num |-> sp.split_num,
        res |-> res,
        bad |-> {i \in 1..sp.split_num : res[i].exc # "none"}]

\* the first section of a pass on which _make_bson_doc raised
FirstRaised(pass) == pass.res[Min(pass.bad)]
Overflowed(pass) ==
    pass.split_num > 0 /\ pass.bad # {} /\ FirstRaised(pass).exc = "InvalidBSON"
\* floor(0.95 * MAX_BSON_SIZE / r) for the ratio r of that section
Recomputed(pass) ==
    (95 * MAX_BSON_SIZE * FirstRaised(pass).mem_usage)
        \div (100 * FirstRaised(pass).binary_size)

\* C15: on an overflow with ratio r the budget becomes
\* floor(0.95 * MAX_BSON_SIZE / r); the call fails and returns no chunk
\* exactly when that budget is below 80% of MAX_BSON_SIZE, and otherwise the
\* whole segment is split again with it, so that the list returned holds the
\* chunks of the last attempt only.
C15_BudgetRecomputed ==
    output.stage # "input"
    => LET e == output.enc
           n == Len(e.budgets)
           pass(k) == SectionResults(input.uid, input.df, e.budgets[k], input.lz4)
       IN /\ e.budgets[1] = input.max_size
          /\ \A k \in 1..(n - 1) :
                /\ Overflowed(pass(k))
                /\ e.budgets[k + 1] = Recomputed(pass(k))
                /\ 10 * e.budgets[k + 1] >= 8 * MAX_BSON_SIZE
          /\ (e.exc # "RecursionError" /\ Overflowed(pass(n)))
                => /\ 10 * Recomputed(pass(n)) < 8 * MAX_BSON_SIZE
                   /\ e.exc = "AssertionError"
                   /\ e.docs = <<>>
          /\ e.exc = "AssertionError" => Overflowed(pass(n))
          /\ e.exc = "none"
                => /\ pass(n).bad = {}
                   /\ e.docs = [i \in 1..pass(n).split_num |-> pass(n).res[i].doc]

\* C15 witness: the first attempt overflowed, and the list returned is the
\* finer split of the recomputed budget
C15_Witness ==
    /\ output.stage = "encoded"
    /\ output.enc.exc = "none"
    /\ Len(output.enc.budgets) = 2
    /\ Len(output.enc.docs)
          > SectionResults(input.uid, input.df, input.max_size, input.lz4).split_num

RECURSIVE SumRows(_)
SumRows(docs) ==
    IF docs = <<>> THEN 0 ELSE Head(docs).metadata.nrows + SumRows(Tail(docs))

\* C16: split_dataframes cuts a segment of n rows and footprint m with
\* budget b into k = ceil(m / b) contiguous sections in row order, of lengths
\* differing by at most one, that together are the rows in their order; no
\* section is empty (1 <= k <= n), so every chunk has nrows >= 1 and the
\* nrows of the chunks sum to n.
C16_SplitNonEmpty ==
    output.stage # "input"
    => LET n == Len(input.df.rows)
           m == MemoryUsage(input.df)
           b == input.max_size
           sp == split_dataframes(input.df, b)
           k == sp.split_num
           len(i) == sp.sects[i][2] - sp.sects[i][1] + 1
       IN /\ (k - 1) * b < m /\ m <= k * b
          /\ 1 <= k /\ k <= n
          /\ Len(sp.sects) = k
          /\ sp.sects[1][1] = 1 /\ sp.sects[k][2] = n
          /\ \A i \in 1..(k - 1) : sp.sects[i + 1][1] = sp.sects[i][2] + 1
          /\ \A i, j \in 1..k : len(i) >= 1 /\ len(i) - len(j) <= 1
          /\ output.enc.exc = "none"
                => /\ \A i \in DOMAIN output.enc.docs :
                         output.enc.docs[i].metadata.nrows >= 1
                   /\ SumRows(output.enc.docs) = n

\* C16, apart from the empty segment and the budgets below one row's share
\* of the footprint
C16_UnlessBelowRow ==
    \/ output.stage # "input"
       /\ \/ input.df.rows = <<>>
          \/ input.max_size * Len(input.df.rows) < MemoryUsage(input.df)
    \/ C16_SplitNonEmpty

-----------------------------------------------------------------------------
(* The merger as a pure function: build_dataframe on any list of chunks    *)

\* column orders of a chunk: the non-empty orders of a, b, c without repeats
MergeColumns ==
    UNION {{c \in [1..n -> {ColA, ColB, ColC}] : ~HasDuplicates(c)} : n \in 1..3}

\* lists of up to MaxChunks one-row chunks
MergeInputs ==
    UNION {{[k \in 1..n |-> make_bson_doc("X", FloatFrame(cols[k], <<k>>), 1).doc] :
              cols \in [1..n -> MergeColumns]} : n \in 0..MaxChunks}

Merge ==
    /\ output.stage = "input"
    /\ output' = [stage |-> "merged", dec |-> build_dataframe(input)]
    /\ UNCHANGED <<store, op, writers, input>>

InitMerge ==
    /\ store = {}
    /\ op = NoOp
    /\ writers = <<>>
    /\ input \in MergeInputs
    /\ output = [stage |-> "input"]

NextMerge == Merge

SpecMerge == InitMerge /\ [][NextMerge]_vars

\* the order the specification defines: a new column goes before its
\* successor in its chunk when that is placed, else to the end
RECURSIVE SpecPlace(_, _, _)
SpecPlace(final, cols, new_cols) ==
    IF new_cols = <<>> THEN final
    ELSE LET c == Head(new_cols)
             i == IndexOf(cols, c)
         IN SpecPlace(IF i < Len(cols) /\ InSeq(final, cols[i + 1])
                      THEN InsertAt(final, IndexOf(final, cols[i + 1]), c)
                      ELSE Append(final, c),
                      cols, Tail(new_cols))
RECURSIVE SpecOrder(_, _)
SpecOrder(final, col_lists) ==
    IF col_lists = <<>> THEN final
    ELSE SpecOrder(SpecPlace(final, Head(col_lists),
                             SelectSeq(Head(col_lists), LAMBDA c : ~InSeq(final, c))),
                   Tail(col_lists))

ChunkColumns(docs) ==
    [k \in DOMAIN docs |-> [j \in DOMAIN docs[k].columns |-> docs[k].columns[j].name]]

\* C7: for every non-empty list of chunks fix_column_ordering completes
\* without error and returns the order the specification defines, which
\* holds every column of every chunk exactly once; [a,b,c] and [a,c,d]
\* merge to [a,b,c,d].
C7_ColumnOrderMerged ==
    /\ (output.stage = "merged" /\ input # <<>>)
       => LET lists == ChunkColumns(input)
          IN /\ output.dec.exc = "none"
             /\ output.dec.columns = SpecOrder(Head(lists), Tail(lists))
             /\ ~HasDuplicates(output.dec.columns)
             /\ Range(output.dec.columns) = UNION {Range(lists[k]) : k \in DOMAIN lists}
    /\ fix_column_ordering(<< <<ColA, ColB, ColC>>, <<ColA, ColC, ColD>> >>)
          = [ok |-> TRUE, cols |-> <<ColA, ColB, ColC, ColD>>]

\* C7, apart from the merges that fix_column_ordering aborts
C7_UnlessRaised ==
    (output.stage = "merged" /\ output.dec.exc = "ValueError" /\ input # <<>>)
    \/ C7_ColumnOrderMerged

\* C8: decoding an empty list of chunks returns an empty segment and raises
\* no error.
C8_EmptyListDecodes ==
    (output.stage = "merged" /\ input = <<>>)
    => (output.dec.exc = "none" /\ output.dec.rows = <<>>)

====
